---- MODULE Spec2Model ----
(* Model of the rc-car endpoint: RCCarWebRTCClient (signaling handlers,       *)
(* create_offer, handle_answer, handle_ice_candidate, run, cleanup) from      *)
(* src/rc-car/src/network/web_rtc_client.py, with its command sink            *)
(* DummyMotorController (src/control/dummy_motor.py) and its video track      *)
(* TestPatternVideoTrack (src/video/test_pattern.py).                         *)
(*                                                                            *)
(* Scheduling: everything runs on one asyncio event loop. Every `await` of    *)
(* the source is one action of the model: the awaited operation takes effect  *)
(* and the synchronous code up to the next `await` runs with it. Coroutines   *)
(* of different handlers interleave between these actions only.               *)
EXTENDS Integers, Sequences, FiniteSets, TLC

VARIABLES
    room_code,      \* self.room_code
    pc,             \* self.pc: 0 is None, otherwise an index into pcs
    datachannel,    \* self.datachannel: 0 is None, otherwise the owning pc
    video_track,    \* self.video_track: 0 is None, otherwise a track id
    pcs,            \* every RTCPeerConnection object constructed so far
    sio_connected,  \* self.sio.connected
    conn,           \* number of signaling connections established so far
    emitted,        \* events handed to self.sio.emit, in order
    tasks,          \* one create_offer coroutine per 'controller-joined'
    runPc,          \* position of run()
    exitCause,      \* what ended the try block of run()
    runOutcome,     \* how run() ended, as its caller sees it
    logged,         \* log lines written so far by run, connect_signaling, cleanup
    nRemote,        \* 'answer' and 'ice-candidate' events handled
    last,           \* the last handle_answer / handle_ice_candidate and its outcome
    escaped,        \* the handlers that let an exception out to their caller
    sio_lost,       \* the transport was disconnected for good (no reconnection)
    dcOpen,         \* self.datachannel.readyState is "open"
    nMsg,           \* data-channel messages delivered to on_message
    sink,           \* self.motor_controller: the process_command calls it received
    lastMsg,        \* the last data-channel message and what on_message did with it
    nLocal,         \* 'icecandidate' events delivered to on_icecandidate
    lastCand,       \* the last local candidate delivered
    width,          \* TestPatternVideoTrack.width
    counter,        \* TestPatternVideoTrack.counter
    pulls,          \* the recv() calls suspended at next_timestamp(), oldest first
    frames          \* the frames recv() has returned, in order

\* the signaling client of web_rtc_client.py
client == <<room_code, pc, datachannel, video_track, pcs, sio_connected, conn,
            emitted, tasks, runPc, exitCause, runOutcome, logged, nRemote, last,
            escaped>>

\* the data channel, the local candidates and the loss of the transport
channel == <<sio_lost, dcOpen, nMsg, sink, lastMsg, nLocal, lastCand>>

\* the test pattern track of test_pattern.py
track == <<width, counter, pulls, frames>>

vars == <<client, channel, track>>

session == <<pc, datachannel, video_track, pcs>>

----------------------------------------------------------------------------
(* Bounds of the model *)

MaxJoin == 2        \* 'controller-joined' events delivered
MaxRemote == 2      \* 'answer' and 'ice-candidate' events delivered
MaxConn == 2        \* signaling connections established (first + reconnects)

MaxMsg == 1         \* data-channel messages delivered
MaxLocal == 2       \* local 'icecandidate' events delivered
MaxPulls == 3       \* recv() calls on the test pattern track
MaxWidth == 15      \* widths 1..MaxWidth are checked besides the default
MaxIndex == 8       \* frames produced before the ones checked

Rooms == {"CAR001", "CAR002"}

\* TestPatternVideoTrack.__init__: width=640
DefaultWidth == 640

None == 0

----------------------------------------------------------------------------
(* The peer-connection capability (aiortc), as the client uses it *)

NoDesc == [type |-> "none", sdp |-> [id |-> 0, media |-> <<>>]]

\* RTCPeerConnection(configuration=config)
NewPeerConnection ==
    [closed |-> FALSE, channels |-> <<>>, tracks |-> <<>>, offers |-> 0,
     local |-> NoDesc, remote |-> NoDesc, signaling |-> "stable", cands |-> 0]

\* the media sections an offer of peer connection p describes
MediaOf(p) ==
    (IF p.channels /= <<>> THEN <<"application">> ELSE <<>>)
    \o [i \in 1..Len(p.tracks) |-> "video"]

\* pc.createOffer(): refused on a closed connection and on one with neither
\* a data channel nor a track
CanCreateOffer(p) == ~p.closed /\ MediaOf(p) /= <<>>

OfferOf(p) == [type |-> "offer", sdp |-> [id |-> p.offers + 1, media |-> MediaOf(p)]]

\* pc.setLocalDescription(offer): refused on a closed connection
CanSetLocal(p) == ~p.closed /\ p.signaling \in {"stable", "have-local-offer"}

\* pc.setRemoteDescription(answer): an answer applies to a pending local offer
CanSetRemote(p) == ~p.closed /\ p.signaling = "have-local-offer"

----------------------------------------------------------------------------
(* json.dumps / json.loads on the flat objects the client exchanges *)

\* json.dumps(obj): the text of a flat object, its members in the given order
JsonDumps(keys, obj) ==
    [kind |-> "object", members |-> [i \in 1..Len(keys) |-> <<keys[i], obj[keys[i]]>>]]

\* a text json.loads rejects (JSONDecodeError)
Garbage == [kind |-> "garbage", members |-> <<>>]

\* json.loads(text) succeeds: the text is an object or another JSON value
JsonParses(text) == text.kind \in {"object", "scalar"}

\* the keys of json.loads(text)
JsonKeys(text) == {text.members[i][1] : i \in 1..Len(text.members)}

\* json.loads(text)[key]
JsonGet(text, key) ==
    LET i == CHOOSE j \in 1..Len(text.members) : text.members[j][1] = key
    IN text.members[i][2]

\* json.loads(text): what the text decodes to, a dict with its items or
\* another JSON value
JsonLoads(text) ==
    [isDict |-> text.kind = "object",
     items |-> {<<k, JsonGet(text, k)>> : k \in JsonKeys(text)}]

\* no command: the value of a text that holds no object
NoCommand == [isDict |-> FALSE, items |-> {}]

\* no candidate: the event pc fires with None at the end of gathering
NoCandidate ==
    [null |-> TRUE, candidate |-> "", sdpMid |-> "", sdpMLineIndex |-> "", emitOk |-> FALSE]

----------------------------------------------------------------------------
(* The command sink: DummyMotorController (dummy_motor.py) *)

\* a JSON number, kept in hundredths: Num(50) is 0.5
Num(v) == [t |-> "number", v |-> v]

\* a JSON string where a number is expected
Str == [t |-> "string", v |-> 0]

\* command[key], which needs the key to be there
CommandGetStrict(command, key, default) ==
    IF \E it \in command.items : it[1] = key
    THEN (CHOOSE it \in command.items : it[1] = key)[2]
    ELSE [t |-> "missing", v |-> 0]

\* command.get(key, default)
CommandGet(command, key, default) ==
    IF \E it \in command.items : it[1] = key
    THEN (CHOOSE it \in command.items : it[1] = key)[2]
    ELSE default

\* f"{x:.2f}" of x given in hundredths: sign, integer part, two decimals
Format2f(x) ==
    LET m == IF x < 0 THEN 0 - x ELSE x
    IN [sign |-> IF x < 0 THEN "-" ELSE "", int |-> m \div 100,
        frac |-> <<(m \div 10) % 10, m % 10>>]

\* the log line of a call that raised before logging
NoLine == [w |-> Format2f(0), a |-> Format2f(0)]

\* DummyMotorController.process_command(command): w and a are read with
\* .get(..., 0.0) and logged with two decimals. It raises when command is
\* no dict (no .get) and when a field cannot be formatted as a float.
ProcessCommand(command) ==
    LET w == CommandGet(command, "w", Num(0))
        a == CommandGet(command, "a", Num(0))
    IN IF ~command.isDict THEN [raised |-> TRUE, line |-> NoLine]
       ELSE IF w.t /= "number" \/ a.t /= "number" THEN [raised |-> TRUE, line |-> NoLine]
       ELSE [raised |-> FALSE, line |-> [w |-> Format2f(w.v), a |-> Format2f(a.v)]]

----------------------------------------------------------------------------
(* State after RCCarWebRTCClient.__init__ *)

TypeOK ==
    /\ room_code \in Rooms
    /\ pc \in 0..Len(pcs)
    /\ datachannel \in 0..Len(pcs)
    /\ video_track \in Nat
    /\ sio_connected \in BOOLEAN
    /\ conn \in 0..MaxConn
    /\ Len(tasks) <= MaxJoin
    /\ runPc \in {"start", "idle", "cleanup_close", "cleanup_disconnect", "returned"}
    /\ exitCause \in {"none", "interrupt", "connect_failed", "error"}
    /\ runOutcome \in {"running", "returned", "raised"}
    /\ nRemote \in 0..MaxRemote
    /\ sio_lost \in BOOLEAN
    /\ dcOpen \in BOOLEAN
    /\ nMsg \in 0..MaxMsg
    /\ sink.calls \in 0..MaxMsg
    /\ nLocal \in 0..MaxLocal
    /\ width \in Nat \ {0}
    /\ counter \in Nat
    /\ Len(pulls) + Len(frames) <= MaxPulls

\* the signaling client after RCCarWebRTCClient.__init__
ClientInit ==
    /\ room_code \in Rooms
    /\ pc = None
    /\ video_track = None
    /\ datachannel = None
    /\ pcs = <<>>
    /\ sio_connected = FALSE
    /\ conn = 0
    /\ emitted = <<>>
    /\ tasks = <<>>
    /\ runPc = "start"
    /\ exitCause = "none"
    /\ runOutcome = "running"
    /\ logged = {}
    /\ nRemote = 0
    /\ last = [op |-> "none", failed |-> FALSE]
    /\ escaped = {}

\* no data channel yet, nothing delivered, the sink not called
ChannelInit ==
    /\ sio_lost = FALSE
    /\ dcOpen = FALSE
    /\ nMsg = 0
    /\ sink = [calls |-> 0, last |-> NoCommand, raised |-> FALSE, line |-> NoLine]
    /\ lastMsg = [text |-> Garbage, decoded |-> FALSE, calls |-> 0, failed |-> FALSE]
    /\ nLocal = 0
    /\ lastCand = NoCandidate

\* TestPatternVideoTrack.__init__(width): counter = 0, no recv called yet
TrackInit(w) ==
    /\ width = w
    /\ counter = 0
    /\ pulls = <<>>
    /\ frames = <<>>

Init == ClientInit /\ ChannelInit /\ TrackInit(DefaultWidth)

\* the event loop runs handlers while run() is suspended in it
LoopRunning == runPc \in {"idle", "cleanup_close", "cleanup_disconnect"}

----------------------------------------------------------------------------
(* The signaling transport *)

\* a payload that is no JSON text (register-car carries the bare room code)
NoBody == [kind |-> "none", members |-> <<>>]

\* one event handed to self.sio.emit, with the connection it goes out on
Message(event, room, body) == [event |-> event, room |-> room, body |-> body, conn |-> conn]

\* connect(): await self.sio.emit('register-car', self.room_code), on
\* connection number c
RegisterCar(c) == [event |-> "register-car", room |-> room_code, body |-> NoBody, conn |-> c]

\* self.sio.emit(event, data): refused while the transport is not connected;
\* ok = FALSE is a send that fails on its own
EmitAccepted(connected, ok) == connected /\ ok

----------------------------------------------------------------------------
(* run() and cleanup() *)

\* pc.close(): closing is final, and closing a closed connection does nothing
ClosePc(ps, p) == [ps EXCEPT ![p].closed = TRUE, ![p].signaling = "closed"]

\* cleanup() calling close without the `if self.pc:` test
CleanupEntryUnguarded(p, connected) == "cleanup_close"

\* cleanup(), first test: `if self.pc:` guards the close
CleanupEntry(p, connected) ==
    IF p /= None THEN "cleanup_close"
    ELSE IF connected THEN "cleanup_disconnect"
    ELSE "returned"

\* cleanup(), second test: `if self.sio.connected:` guards the disconnect
CleanupAfterClose(connected) ==
    IF connected THEN "cleanup_disconnect" ELSE "returned"

\* `await self.pc.close()` raises: the library fails on an open connection
\* (closeOk = FALSE), or there is no object to call close on
CloseRaises(ps, p, closeOk) ==
    \/ p = None
    \/ ~ps[p].closed /\ ~closeOk

\* cleanup() run from start to end with nothing interleaved, on the state
\* w = [pc, pcs, connected]
Cleanup(w, closeOk) ==
    LET at1 == CleanupEntry(w.pc, w.connected)
        raises == at1 = "cleanup_close" /\ CloseRaises(w.pcs, w.pc, closeOk)
        ps1 == IF at1 = "cleanup_close" /\ ~raises THEN ClosePc(w.pcs, w.pc) ELSE w.pcs
        at2 == IF raises THEN "returned"
               ELSE IF at1 = "cleanup_close" THEN CleanupAfterClose(w.connected)
               ELSE at1
    IN [pc |-> w.pc, pcs |-> ps1,
        connected |-> IF at2 = "cleanup_disconnect" THEN FALSE ELSE w.connected,
        raised |-> raises]

\* connect_signaling() without its `raise`: the failure is only logged
ConnectSignalingSwallows(ok) == FALSE

\* connect_signaling(): `except Exception ... raise` logs the failure of
\* self.sio.connect and raises it again
ConnectSignalingRaises(ok) == ~ok

\* a connect handler that registers nothing
ConnectHandlerSilent(ok, c) == <<>>

\* the connect handler runs on every connection established (number c)
ConnectHandler(ok, c) == IF ok THEN <<RegisterCar(c)>> ELSE <<>>

\* run(): await self.connect_signaling(). On success the connect handler has
\* registered the car and run enters the idle loop; on failure the error is
\* logged by connect_signaling, re-raised, caught and logged by run, and the
\* finally block runs cleanup up to its first await.
RunConnect ==
    /\ runPc = "start"
    /\ \E ok \in BOOLEAN :
        IF ~ConnectSignalingRaises(ok)
        THEN /\ sio_connected' = ok
             /\ conn' = IF ok THEN conn + 1 ELSE conn
             /\ emitted' = emitted \o ConnectHandler(ok, conn + 1)
             /\ runPc' = "idle"
             /\ logged' = logged \cup {"running"}
                    \cup (IF ok THEN {"Waiting for controller to join..."}
                          ELSE {"Failed to connect"})
             /\ UNCHANGED <<exitCause, runOutcome>>
        ELSE /\ logged' = logged \cup {"Failed to connect", "Error"}
                    \cup (IF CleanupEntry(pc, sio_connected) = "returned"
                          THEN {"Cleanup complete"} ELSE {})
             /\ exitCause' = "connect_failed"
             /\ runPc' = CleanupEntry(pc, sio_connected)
             /\ runOutcome' = IF runPc' = "returned" THEN "returned" ELSE runOutcome
             /\ UNCHANGED <<sio_connected, conn, emitted>>
    /\ UNCHANGED <<room_code, session, tasks, nRemote, last, escaped>>
    /\ UNCHANGED <<channel, track>>

\* run(): the idle loop `while True: await asyncio.sleep(1)` ends by an
\* interrupt (except KeyboardInterrupt) or by another error (except
\* Exception); both are logged and the finally block runs cleanup up to its
\* first await.
RunExit ==
    /\ runPc = "idle"
    /\ \E cause \in {"interrupt", "error"} :
        /\ exitCause' = cause
        /\ logged' = logged
                \cup (IF cause = "interrupt" THEN {"Shutting down..."} ELSE {"Error"})
                \cup (IF CleanupEntry(pc, sio_connected) = "returned"
                      THEN {"Cleanup complete"} ELSE {})
    /\ runPc' = CleanupEntry(pc, sio_connected)
    /\ runOutcome' = IF runPc' = "returned" THEN "returned" ELSE runOutcome
    /\ UNCHANGED <<room_code, session, sio_connected, conn, emitted, tasks,
                   nRemote, last, escaped>>
    /\ UNCHANGED <<channel, track>>

\* cleanup(): await self.pc.close(), then the test of self.sio.connected.
\* An exception of close leaves cleanup and run.
CleanupClose ==
    /\ runPc = "cleanup_close"
    /\ \E closeOk \in BOOLEAN :
        IF CloseRaises(pcs, pc, closeOk)
        THEN /\ runPc' = "returned"
             /\ runOutcome' = "raised"
             /\ UNCHANGED <<pcs, logged>>
        ELSE /\ pcs' = ClosePc(pcs, pc)
             /\ runPc' = CleanupAfterClose(sio_connected)
             /\ runOutcome' = IF runPc' = "returned" THEN "returned" ELSE runOutcome
             /\ logged' = logged \cup (IF runPc' = "returned"
                                       THEN {"Cleanup complete"} ELSE {})
    /\ UNCHANGED <<room_code, pc, datachannel, video_track, sio_connected, conn,
                   emitted, tasks, exitCause, nRemote, last, escaped>>
    /\ UNCHANGED <<channel, track>>

\* cleanup(): await self.sio.disconnect(), then cleanup and run return
CleanupDisconnect ==
    /\ runPc = "cleanup_disconnect"
    /\ sio_connected' = FALSE
    /\ runPc' = "returned"
    /\ runOutcome' = "returned"
    /\ logged' = logged \cup {"Cleanup complete"}
    /\ UNCHANGED <<room_code, session, conn, emitted, tasks, exitCause,
                   nRemote, last, escaped>>
    /\ UNCHANGED <<channel, track>>

\* the transport loses its connection (socketio: disconnect event)
TransportDrop ==
    /\ LoopRunning
    /\ sio_connected
    /\ sio_connected' = FALSE
    /\ UNCHANGED <<room_code, session, conn, emitted, tasks, runPc, exitCause,
                   runOutcome, logged, nRemote, last, escaped>>
    /\ UNCHANGED <<channel, track>>

\* the transport reconnects by itself: the connect handler runs again
TransportReconnect ==
    /\ LoopRunning
    /\ ~sio_connected
    /\ conn \in 1..(MaxConn - 1)
    /\ sio_connected' = TRUE
    /\ conn' = conn + 1
    /\ emitted' = emitted \o ConnectHandler(TRUE, conn + 1)
    /\ UNCHANGED <<room_code, session, tasks, runPc, exitCause, runOutcome,
                   logged, nRemote, last, escaped>>
    /\ UNCHANGED <<channel, track>>

----------------------------------------------------------------------------------------------------------------------------------------
(* initialize_peer_connection() and create_offer() *)

\* the steps of initialize_peer_connection that can raise
InitFailPoints == {"none", "constructor", "createDataChannel", "factory", "addTrack"}

\* initialize_peer_connection(), which has no await: it runs in one piece, up
\* to the step that raises (failAt), on the session s = [pc, datachannel,
\* video_track, pcs]
Initialize(s, failAt) ==
    LET ps1 == Append(s.pcs, NewPeerConnection)
        p == Len(ps1)
        ps2 == [ps1 EXCEPT ![p].channels = <<"control">>]
        ps3 == [ps2 EXCEPT ![p].tracks = <<p>>]
    IN CASE failAt = "constructor" ->
              [pc |-> s.pc, datachannel |-> s.datachannel,
               video_track |-> s.video_track, pcs |-> s.pcs, failed |-> TRUE]
         [] failAt = "createDataChannel" ->
              [pc |-> p, datachannel |-> s.datachannel,
               video_track |-> s.video_track, pcs |-> ps1, failed |-> TRUE]
         [] failAt = "factory" ->
              [pc |-> p, datachannel |-> p,
               video_track |-> s.video_track, pcs |-> ps2, failed |-> TRUE]
         [] failAt = "addTrack" ->
              [pc |-> p, datachannel |-> p,
               video_track |-> p, pcs |-> ps2, failed |-> TRUE]
         [] OTHER ->
              [pc |-> p, datachannel |-> p,
               video_track |-> p, pcs |-> ps3, failed |-> FALSE]

\* create_offer() initializing on every call
NeedsInitAlways(p) == TRUE

\* create_offer(): `if self.pc is None:` guards the initialization
NeedsInit(p) == p = None

\* create_offer() with the emit outside its try block
CreateOfferPropagatesEmit(stage) == stage = "emit"

\* create_offer(): `except Exception` catches the failure of every stage
\* ("init", "createOffer", "setLocal", "emit"), so nothing propagates
CreateOfferPropagates(stage) == FALSE

\* create_offer(): the payload of the 'offer' event built from offer_data
OfferMessage(room, data) ==
    Message("offer", room, JsonDumps(<<"type", "sdp">>, data))

\* create_offer() emitting the offer twice
OfferEmitsTwice(room, data) == <<OfferMessage(room, data), OfferMessage(room, data)>>

\* create_offer(): what one successful pass hands to self.sio.emit
OfferEmits(room, data) == <<OfferMessage(room, data)>>

\* a create_offer coroutine waiting for pc.createOffer()
NewTask == [at |-> "createOffer", offer |-> NoDesc, data |-> NoDesc, failed |-> FALSE]

\* a create_offer coroutine that ended in its except clause
FailedTask == [at |-> "done", offer |-> NoDesc, data |-> NoDesc, failed |-> TRUE]

\* a create_offer coroutine that returned after 'Offer sent'
ReturnedTask == [at |-> "done", offer |-> NoDesc, data |-> NoDesc, failed |-> FALSE]

\* the handlers with an escaped exception, once create_offer failed at stage
EscapedAfter(stage) ==
    escaped \cup (IF CreateOfferPropagates(stage) THEN {"create_offer"} ELSE {})

\* on_controller_joined(data) up to the first suspension of create_offer():
\* the test of self.pc and, when it is None, the whole of
\* initialize_peer_connection; then the coroutine waits for createOffer
ControllerJoined ==
    /\ LoopRunning
    /\ sio_connected
    /\ Len(tasks) < MaxJoin
    /\ IF NeedsInit(pc)
       THEN \E failAt \in InitFailPoints :
              LET r == Initialize([pc |-> pc, datachannel |-> datachannel,
                                   video_track |-> video_track, pcs |-> pcs], failAt)
              IN /\ pc' = r.pc
                 /\ datachannel' = r.datachannel
                 /\ video_track' = r.video_track
                 /\ pcs' = r.pcs
                 /\ tasks' = Append(tasks, IF r.failed THEN FailedTask ELSE NewTask)
                 /\ escaped' = IF r.failed THEN EscapedAfter("init") ELSE escaped
       ELSE /\ tasks' = Append(tasks, NewTask)
            /\ UNCHANGED <<session, escaped>>
    /\ UNCHANGED <<room_code, sio_connected, conn, emitted, runPc, exitCause,
                   runOutcome, logged, nRemote, last>>
    /\ UNCHANGED <<channel, track>>

\* create_offer(): offer = await self.pc.createOffer()
CO_CreateOffer(i) ==
    /\ LoopRunning
    /\ tasks[i].at = "createOffer"
    /\ \E ok \in BOOLEAN :
        IF pc /= None /\ CanCreateOffer(pcs[pc]) /\ ok
        THEN /\ tasks' = [tasks EXCEPT ![i].at = "setLocal", ![i].offer = OfferOf(pcs[pc])]
             /\ pcs' = [pcs EXCEPT ![pc].offers = @ + 1]
             /\ UNCHANGED escaped
        ELSE /\ tasks' = [tasks EXCEPT ![i] = FailedTask]
             /\ escaped' = EscapedAfter("createOffer")
             /\ UNCHANGED pcs
    /\ UNCHANGED <<room_code, pc, datachannel, video_track, sio_connected, conn,
                   emitted, runPc, exitCause, runOutcome, logged, nRemote, last>>
    /\ UNCHANGED <<channel, track>>

\* create_offer(): await self.pc.setLocalDescription(offer), then offer_data
\* is read from self.pc.localDescription
CO_SetLocal(i) ==
    /\ LoopRunning
    /\ tasks[i].at = "setLocal"
    /\ \E ok \in BOOLEAN :
        IF pc /= None /\ CanSetLocal(pcs[pc]) /\ ok
        THEN /\ pcs' = [pcs EXCEPT ![pc].local = tasks[i].offer,
                                   ![pc].signaling = "have-local-offer"]
             /\ tasks' = [tasks EXCEPT ![i].at = "emit",
                              ![i].offer = NoDesc,
                              ![i].data = [type |-> pcs'[pc].local.type,
                                           sdp |-> pcs'[pc].local.sdp]]
             /\ UNCHANGED escaped
        ELSE /\ tasks' = [tasks EXCEPT ![i] = FailedTask]
             /\ escaped' = EscapedAfter("setLocal")
             /\ UNCHANGED pcs
    /\ UNCHANGED <<room_code, pc, datachannel, video_track, sio_connected, conn,
                   emitted, runPc, exitCause, runOutcome, logged, nRemote, last>>
    /\ UNCHANGED <<channel, track>>

\* create_offer(): await self.sio.emit('offer', {...})
CO_Emit(i) ==
    /\ LoopRunning
    /\ tasks[i].at = "emit"
    /\ \E ok \in BOOLEAN :
        IF EmitAccepted(sio_connected, ok)
        THEN /\ emitted' = emitted \o OfferEmits(room_code, tasks[i].data)
             /\ tasks' = [tasks EXCEPT ![i] = ReturnedTask]
             /\ UNCHANGED escaped
        ELSE /\ tasks' = [tasks EXCEPT ![i] = FailedTask]
             /\ escaped' = EscapedAfter("emit")
             /\ UNCHANGED emitted
    /\ UNCHANGED <<room_code, session, sio_connected, conn, runPc, exitCause,
                   runOutcome, logged, nRemote, last>>
    /\ UNCHANGED <<channel, track>>

CreateOfferStep == \E i \in 1..Len(tasks) :
    CO_CreateOffer(i) \/ CO_SetLocal(i) \/ CO_Emit(i)

----------------------------------------------------------------------------
(* handle_answer() and handle_ice_candidate() *)

\* an RTCSessionDescription as the controller serializes it
AnswerDesc == [type |-> "answer", sdp |-> [id |-> 1, media |-> <<"application", "video">>]]

\* the 'answer' payloads delivered: no 'answer' member, a text that is no
\* JSON, an object without 'sdp', an object without 'type', a complete one
AnswerPayloads ==
    { [has |-> FALSE, answer |-> Garbage],
      [has |-> TRUE, answer |-> Garbage],
      [has |-> TRUE, answer |-> JsonDumps(<<"type">>, AnswerDesc)],
      [has |-> TRUE, answer |-> JsonDumps(<<"sdp">>, AnswerDesc)],
      [has |-> TRUE, answer |-> JsonDumps(<<"type", "sdp">>, AnswerDesc)] }

\* handle_answer(), the try block: the first exception it meets on payload
\* data with the session (p, ps); libOk = FALSE is a refusal by the library
AnswerError(data, p, ps, libOk) ==
    IF ~data.has THEN "TypeError"
    ELSE IF ~JsonParses(data.answer) THEN "JSONDecodeError"
    ELSE IF "sdp" \notin JsonKeys(data.answer) THEN "KeyError"
    ELSE IF "type" \notin JsonKeys(data.answer) THEN "KeyError"
    ELSE IF p = None THEN "AttributeError"
    ELSE IF ~(CanSetRemote(ps[p]) /\ libOk) THEN "InvalidStateError"
    ELSE "none"

\* handle_answer() catching the parse errors only
AnswerPropagatesUnparsed(error) == error \notin {"TypeError", "JSONDecodeError", "KeyError"}

\* handle_answer(): `except Exception` catches every one of them
AnswerPropagates(error) == FALSE

\* handle_answer(): await self.pc.setRemoteDescription(answer)
SetRemote(ps, p, data) ==
    [ps EXCEPT ![p].remote = [type |-> JsonGet(data.answer, "type"),
                              sdp |-> JsonGet(data.answer, "sdp")],
               ![p].signaling = "stable"]

\* handle_answer(data) on the session (p, ps): the peer connections after it
AnswerEffect(data, p, ps, libOk) ==
    IF AnswerError(data, p, ps, libOk) = "none" THEN SetRemote(ps, p, data) ELSE ps

\* on_answer(data): handle_answer(data)
HandleAnswer ==
    /\ LoopRunning
    /\ sio_connected
    /\ nRemote < MaxRemote
    /\ nRemote' = nRemote + 1
    /\ \E data \in AnswerPayloads, libOk \in BOOLEAN :
        LET error == AnswerError(data, pc, pcs, libOk) IN
        /\ pcs' = AnswerEffect(data, pc, pcs, libOk)
        /\ last' = [op |-> "answer", failed |-> error /= "none"]
        /\ escaped' = escaped \cup (IF error /= "none" /\ AnswerPropagates(error)
                                    THEN {"handle_answer"} ELSE {})
    /\ UNCHANGED <<room_code, pc, datachannel, video_track, sio_connected, conn,
                   emitted, tasks, runPc, exitCause, runOutcome, logged>>
    /\ UNCHANGED <<channel, track>>

\* an RTCIceCandidate as the controller serializes it
CandidateDesc == [candidate |-> "candidate:1 1 UDP", sdpMid |-> "0", sdpMLineIndex |-> "0"]

\* the 'ice-candidate' payloads delivered: no 'candidate' member, a text that
\* is no JSON, an object without 'sdpMid', a complete one
IcePayloads ==
    { [has |-> FALSE, candidate |-> Garbage],
      [has |-> TRUE, candidate |-> Garbage],
      [has |-> TRUE, candidate |-> JsonDumps(<<"candidate", "sdpMLineIndex">>, CandidateDesc)],
      [has |-> TRUE, candidate |-> JsonDumps(<<"candidate", "sdpMid", "sdpMLineIndex">>,
                                             CandidateDesc)] }

\* handle_ice_candidate(), the try block: the first exception it meets
IceError(data, p, ps, libOk) ==
    IF ~data.has THEN "TypeError"
    ELSE IF ~JsonParses(data.candidate) THEN "JSONDecodeError"
    ELSE IF {"candidate", "sdpMid", "sdpMLineIndex"} \ JsonKeys(data.candidate) /= {}
         THEN "KeyError"
    ELSE IF p = None THEN "AttributeError"
    ELSE IF ps[p].closed \/ ~libOk THEN "InvalidStateError"
    ELSE "none"

\* handle_ice_candidate() catching the parse errors only
IcePropagatesUnparsed(error) == error \notin {"TypeError", "JSONDecodeError", "KeyError"}

\* handle_ice_candidate(): `except Exception` catches every one of them
IcePropagates(error) == FALSE

\* handle_ice_candidate(): await self.pc.addIceCandidate(candidate)
AddIceCandidate(ps, p) == [ps EXCEPT ![p].cands = @ + 1]

\* on_ice_candidate(data): handle_ice_candidate(data)
HandleIceCandidate ==
    /\ LoopRunning
    /\ sio_connected
    /\ nRemote < MaxRemote
    /\ nRemote' = nRemote + 1
    /\ \E data \in IcePayloads, libOk \in BOOLEAN :
        LET error == IceError(data, pc, pcs, libOk) IN
        /\ pcs' = IF error = "none" THEN AddIceCandidate(pcs, pc) ELSE pcs
        /\ last' = [op |-> "ice", failed |-> error /= "none"]
        /\ escaped' = escaped \cup (IF error /= "none" /\ IcePropagates(error)
                                    THEN {"handle_ice_candidate"} ELSE {})
    /\ UNCHANGED <<room_code, pc, datachannel, video_track, sio_connected, conn,
                   emitted, tasks, runPc, exitCause, runOutcome, logged>>
    /\ UNCHANGED <<channel, track>>

----------------------------------------------------------------------------
(* The data-channel handlers of initialize_peer_connection *)

\* the fields of the commands the controller sends
CommandFields == [w |-> Num(50), a |-> Num(0 - 100)]

\* the messages delivered on the data channel: a text that is no JSON, a
\* JSON value that is no object, the objects {}, {"w"}, {"a"}, {"w", "a"},
\* and an object whose w is a string
MessageTexts ==
    { Garbage,
      [kind |-> "scalar", members |-> <<>>],
      JsonDumps(<<>>, CommandFields),
      JsonDumps(<<"w">>, CommandFields),
      JsonDumps(<<"a">>, CommandFields),
      JsonDumps(<<"w", "a">>, CommandFields),
      JsonDumps(<<"w", "a">>, [w |-> Str, a |-> Num(25)]) }

\* on_message() with only json.loads inside its try block
MessagePropagatesSink(error) == error = "sink"

\* on_message(): `except Exception` catches the failure of json.loads
\* ("decode") and whatever process_command raises ("sink")
MessagePropagates(error) == FALSE

\* on_message(message), the try block: the first exception it meets
MessageError(text) ==
    IF ~JsonParses(text) THEN "decode"
    ELSE IF ProcessCommand(JsonLoads(text)).raised THEN "sink"
    ELSE "none"

\* the sink after on_message(message): process_command(data) is called once
\* with the decoded data, and not at all when json.loads raised
SinkAfter(s, text) ==
    IF ~JsonParses(text) THEN s
    ELSE [calls |-> s.calls + 1, last |-> JsonLoads(text),
          raised |-> ProcessCommand(JsonLoads(text)).raised,
          line |-> ProcessCommand(JsonLoads(text)).line]

\* the data channel of self.pc can carry messages
ChannelUsable == datachannel /= None /\ dcOpen /\ ~pcs[datachannel].closed

\* the data channel opens once the controller's answer is applied; on_open
\* only logs
ChannelOpen ==
    /\ LoopRunning
    /\ datachannel /= None
    /\ ~dcOpen
    /\ ~pcs[datachannel].closed
    /\ pcs[datachannel].remote /= NoDesc
    /\ dcOpen' = TRUE
    /\ UNCHANGED <<client, track, sio_lost, nMsg, sink, lastMsg, nLocal, lastCand>>

\* on_message(message), which has no await: it runs in one piece
ChannelMessage ==
    /\ LoopRunning
    /\ ChannelUsable
    /\ nMsg < MaxMsg
    /\ nMsg' = nMsg + 1
    /\ \E text \in MessageTexts :
        /\ sink' = SinkAfter(sink, text)
        /\ lastMsg' = [text |-> text, decoded |-> JsonParses(text),
                       calls |-> sink'.calls - sink.calls,
                       failed |-> MessageError(text) /= "none"]
        /\ escaped' = escaped \cup (IF MessagePropagates(MessageError(text))
                                    THEN {"on_message"} ELSE {})
    /\ UNCHANGED <<room_code, session, sio_connected, conn, emitted, tasks, runPc,
                   exitCause, runOutcome, logged, nRemote, last>>
    /\ UNCHANGED <<track, sio_lost, dcOpen, nLocal, lastCand>>

\* the candidates pc hands to on_icecandidate: None and the empty candidate
\* string (both mark the end of gathering), and two real candidates
LocalCandidates ==
    { [null |-> TRUE, candidate |-> "", sdpMid |-> "", sdpMLineIndex |-> ""],
      [null |-> FALSE, candidate |-> "", sdpMid |-> "0", sdpMLineIndex |-> "0"],
      [null |-> FALSE, candidate |-> "candidate:2 1 UDP", sdpMid |-> "0", sdpMLineIndex |-> "0"],
      [null |-> FALSE, candidate |-> "candidate:3 1 TCP", sdpMid |-> "1", sdpMLineIndex |-> "1"] }

\* send_ice_candidate() without the test of candidate.candidate
SendsCandidateUnfiltered(c) == ~c.null

\* on_icecandidate(): `if candidate:`, then send_ice_candidate():
\* `if candidate.candidate:`
SendsCandidate(c) == ~c.null /\ c.candidate /= ""

\* send_ice_candidate(): the 'ice-candidate' event built from candidate_data
CandidateMessage(room, c) ==
    Message("ice-candidate", room,
            JsonDumps(<<"candidate", "sdpMid", "sdpMLineIndex">>, c))

\* send_ice_candidate() with the emit outside its try block
CandidatePropagatesEmit(error) == error = "emit"

\* send_ice_candidate(): `except Exception` catches the failing emit
CandidatePropagates(error) == FALSE

\* on_icecandidate(candidate) and send_ice_candidate(candidate). The peer
\* connection gathers candidates once it has a local description; emitOk is
\* the answer of self.sio.emit.
LocalIceCandidate ==
    /\ LoopRunning
    /\ pc /= None
    /\ ~pcs[pc].closed
    /\ pcs[pc].local /= NoDesc
    /\ nLocal < MaxLocal
    /\ nLocal' = nLocal + 1
    /\ \E c \in LocalCandidates, ok \in BOOLEAN :
        LET emitOk == EmitAccepted(sio_connected, ok) IN
        /\ lastCand' = [null |-> c.null, candidate |-> c.candidate, sdpMid |-> c.sdpMid,
                        sdpMLineIndex |-> c.sdpMLineIndex, emitOk |-> emitOk]
        /\ emitted' = IF SendsCandidate(c) /\ emitOk
                      THEN Append(emitted, CandidateMessage(room_code, c))
                      ELSE emitted
        /\ escaped' = escaped \cup (IF SendsCandidate(c) /\ ~emitOk
                                       /\ CandidatePropagates("emit")
                                    THEN {"send_ice_candidate"} ELSE {})
    /\ UNCHANGED <<room_code, session, sio_connected, conn, tasks, runPc,
                   exitCause, runOutcome, logged, nRemote, last>>
    /\ UNCHANGED <<track, sio_lost, dcOpen, nMsg, sink, lastMsg>>

----------------------------------------------------------------------------
(* TestPatternVideoTrack.recv (test_pattern.py). One pixel column stands for *)
(* the whole column of the frame: the bars are painted over full columns.    *)

\* the zero pixel of np.zeros, which is also the color of the text
ZeroPixel == <<0, 0, 0>>

\* colors, as written into the array
Colors ==
    << <<255, 255, 255>>, <<255, 255, 0>>, <<0, 255, 255>>, <<0, 255, 0>>,
       <<255, 0, 255>>, <<255, 0, 0>>, <<0, 0, 255>> >>

\* bar_width = self.width // 7
BarWidth(w) == w \div 7

\* a pattern that does not scroll
BarOffsetFixed(n, w) == 0

\* offset = (self.counter % self.width)
BarOffset(n, w) == n % w

\* one pass of the loop, for bar i (from 0): the slice x_start:x_end, then
\* the slice 0:overflow when the bar passes the right edge
PaintBar(frame, w, n, i) ==
    LET x_start == (i * BarWidth(w) + BarOffset(n, w)) % w
        x_end == IF x_start + BarWidth(w) < w THEN x_start + BarWidth(w) ELSE w
        overflow == (x_start + BarWidth(w)) - w
        f1 == [x \in 0..(w - 1) |->
                 IF x_start <= x /\ x < x_end THEN Colors[i + 1] ELSE frame[x]]
    IN IF x_start + BarWidth(w) > w
       THEN [x \in 0..(w - 1) |-> IF x < overflow THEN Colors[i + 1] ELSE f1[x]]
       ELSE f1

RECURSIVE PaintBars(_, _, _, _)
\* `for i, color in enumerate(colors)`, from bar i on
PaintBars(frame, w, n, i) ==
    IF i = Len(Colors) THEN frame
    ELSE PaintBars(PaintBar(frame, w, n, i), w, n, i + 1)

\* the array after the loop: np.zeros, then the seven bars
Bars(w, n) == PaintBars([x \in 0..(w - 1) |-> ZeroPixel], w, n, 0)

RECURSIVE Digits(_)
\* the decimal digits of n, as f"{n}" writes them
Digits(n) ==
    LET d == <<"0", "1", "2", "3", "4", "5", "6", "7", "8", "9">>
    IN IF n < 10 THEN <<d[n + 1]>> ELSE Append(Digits(n \div 10), d[(n % 10) + 1])

\* the fixed part of the text
LabelPrefix == <<"F", "r", "a", "m", "e", ":", " ">>

\* text = f"Frame: {self.counter}"
Label(n) == LabelPrefix \o Digits(n)

\* cv2.putText(..., (10, 30), ...): the column of the first glyph
LabelX == 10

\* the columns one glyph of FONT_HERSHEY_SIMPLEX takes at scale 0.7
GlyphAdvance == 14

\* no ink on a column
NoInk == [ch |-> " ", col |-> 0]

\* the slice of the text's glyphs that falls on column x
InkAt(text, x) ==
    LET k == ((x - LabelX) \div GlyphAdvance) + 1
    IN IF x < LabelX \/ k > Len(text) THEN NoInk
       ELSE IF text[k] = " " THEN NoInk
       ELSE [ch |-> text[k], col |-> (x - LabelX) % GlyphAdvance]

\* cv2.putText(frame, text, ..., (0, 0, 0), 2): the glyphs are drawn in the
\* zero color, clipped to the frame; on a zero pixel they do not show
PutText(frame, text) ==
    [x \in DOMAIN frame |->
        [px |-> frame[x],
         ink |-> IF frame[x] = ZeroPixel THEN NoInk ELSE InkAt(text, x)]]

\* av.VideoFrame.from_ndarray(frame, format="bgr24"): the three values of a
\* pixel are read as blue, green, red
FromNdarray(frame) ==
    [x \in DOMAIN frame |->
        [color |-> [b |-> frame[x].px[1], g |-> frame[x].px[2], r |-> frame[x].px[3]],
         ink |-> frame[x].ink]]

\* the picture recv returns for counter n on a track of width w
Render(w, n) == FromNdarray(PutText(Bars(w, n), Label(n)))

\* recv() reading self.counter before its await
RenderCounterAtCall(atCall, atResume) == atCall

\* recv(): self.counter is read after `await self.next_timestamp()`
RenderCounter(atCall, atResume) == atResume

\* recv() is called: it waits in `await self.next_timestamp()`
RecvCall ==
    /\ Len(pulls) + Len(frames) < MaxPulls
    /\ pulls' = Append(pulls, [seen |-> counter])
    /\ UNCHANGED <<client, channel, width, counter, frames>>

\* recv(), from the return of next_timestamp() to the end: the frame is
\* rendered, self.counter is incremented, the frame is returned. When
\* next_timestamp() raises (the track was stopped), recv ends with no frame.
RecvResume(i) ==
    /\ pulls' = SubSeq(pulls, 1, i - 1) \o SubSeq(pulls, i + 1, Len(pulls))
    /\ \E ok \in BOOLEAN :
        IF ok
        THEN LET n == RenderCounter(pulls[i].seen, counter)
             IN /\ frames' = Append(frames, [n |-> n, image |-> Render(width, n)])
                /\ counter' = n + 1
        ELSE UNCHANGED <<counter, frames>>
    /\ UNCHANGED <<client, channel, width>>

RecvStep == \E i \in 1..Len(pulls) : RecvResume(i)

\* the signaling server ends the connection and the client does not
\* reconnect; the disconnect handler only logs, run stays in its idle loop
TransportLost ==
    /\ LoopRunning
    /\ sio_connected
    /\ sio_connected' = FALSE
    /\ sio_lost' = TRUE
    /\ UNCHANGED <<room_code, session, conn, emitted, tasks, runPc, exitCause,
                   runOutcome, logged, nRemote, last, escaped>>
    /\ UNCHANGED <<track, dcOpen, nMsg, sink, lastMsg, nLocal, lastCand>>

----------------------------------------------------------------------------
(* Specifications *)

\* the negotiation core: run, cleanup, the transport and create_offer
Next ==
    \/ RunConnect
    \/ ControllerJoined
    \/ CreateOfferStep
    \/ RunExit
    \/ CleanupClose
    \/ CleanupDisconnect
    \/ TransportDrop
    \/ TransportReconnect

Spec == Init /\ [][Next]_vars

\* the negotiation with the controller's answers and candidates, on one
\* signaling connection and one room
InitRemote == Init /\ room_code = "CAR001"

NextRemote ==
    \/ RunConnect
    \/ ControllerJoined
    \/ CreateOfferStep
    \/ HandleAnswer
    \/ HandleIceCandidate
    \/ RunExit
    \/ CleanupClose
    \/ CleanupDisconnect

SpecRemote == InitRemote /\ [][NextRemote]_vars

\* the data channel: it opens after the answer and carries messages
NextData ==
    \/ RunConnect
    \/ ControllerJoined
    \/ CreateOfferStep
    \/ HandleAnswer
    \/ ChannelOpen
    \/ ChannelMessage

SpecData == InitRemote /\ [][NextData]_vars

\* the local candidates of the peer connection, on a transport that can drop
NextLocalIce ==
    \/ RunConnect
    \/ ControllerJoined
    \/ CreateOfferStep
    \/ LocalIceCandidate
    \/ TransportDrop

SpecLocalIce == InitRemote /\ [][NextLocalIce]_vars

\* the life of the session: negotiation, the data channel opening, the
\* transport lost for good, shutdown
NextSession ==
    \/ RunConnect
    \/ ControllerJoined
    \/ CreateOfferStep
    \/ HandleAnswer
    \/ HandleIceCandidate
    \/ ChannelOpen
    \/ TransportLost
    \/ RunExit
    \/ CleanupClose
    \/ CleanupDisconnect

SpecSession == InitRemote /\ [][NextSession]_vars

\* the widths of the tracks checked
Widths == 1..MaxWidth \cup {DefaultWidth}

\* a track of any of the widths, pulled by the media pipeline
InitTrack == ClientInit /\ room_code = "CAR001" /\ ChannelInit
             /\ \E w \in Widths : TrackInit(w)

NextTrack ==
    \/ RecvCall
    \/ RecvStep

SpecTrack == InitTrack /\ [][NextTrack]_vars

\* the track after it has produced any number of frames up to MaxIndex
InitPattern == ClientInit /\ room_code = "CAR001" /\ ChannelInit
               /\ width \in Widths /\ counter \in 0..MaxIndex
               /\ pulls = <<>> /\ frames = <<>>

SpecPattern == InitPattern /\ [][NextTrack]_vars

----------------------------------------------------------------------------
(* Properties *)

\* the positions in emitted of the 'offer' events
OfferIndexes == {k \in 1..Len(emitted) : emitted[k].event = "offer"}

\* the "control" data channel and a video track are on the peer connection
Attached ==
    /\ pc /= None
    /\ \E c \in 1..Len(pcs[pc].channels) : pcs[pc].channels[c] = "control"
    /\ pcs[pc].tracks /= <<>>

\* C1: an 'offer' is emitted only when the peer connection has the "control"
\* data channel and the video track, whatever fails in the initialization.
\* (Channels and tracks are never removed, so this is a state invariant.)
C1_OfferOnlyWhenAttached == OfferIndexes /= {} => Attached

\* C2 as stated: every create_offer that has ended produced exactly one
\* 'offer' emit.
C2_EveryJoinOneOffer ==
    (\A i \in 1..Len(tasks) : tasks[i].at = "done")
        => Cardinality(OfferIndexes) = Len(tasks)

\* C2, amended: each 'controller-joined' runs create_offer once, which emits
\* exactly one 'offer' when it ends without a failure and none when a step
\* failed or while it is still running; k events give at most k offers; each
\* offer is tagged with the room code and carries a serialized description
\* with a non-empty sdp.
C2_OfferPerJoin ==
    /\ Cardinality(OfferIndexes) <= Len(tasks)
    /\ Cardinality(OfferIndexes)
         = Cardinality({i \in 1..Len(tasks) : tasks[i].at = "done" /\ ~tasks[i].failed})
    /\ \A k \in OfferIndexes :
         /\ emitted[k].room = room_code
         /\ JsonParses(emitted[k].body)
         /\ JsonKeys(emitted[k].body) = {"type", "sdp"}
         /\ JsonGet(emitted[k].body, "type") = "offer"
         /\ JsonGet(emitted[k].body, "sdp").media /= <<>>

\* two 'controller-joined' events, each answered by one 'offer'
C2_Witness ==
    /\ Len(tasks) = 2
    /\ \A i \in 1..2 : tasks[i].at = "done" /\ ~tasks[i].failed
    /\ Cardinality(OfferIndexes) = 2

\* C3: at most one peer connection and at most one "control" data channel are
\* ever created, also when a 'controller-joined' arrives while an earlier
\* create_offer is suspended.
C3_OnePeerConnection ==
    /\ Len(pcs) <= 1
    /\ \A p \in 1..Len(pcs) : Len(pcs[p].channels) <= 1

\* a second create_offer started while the first one was suspended
C3_Witness ==
    /\ Len(tasks) = 2
    /\ tasks[1].at \in {"createOffer", "setLocal", "emit"}
    /\ tasks[2].at \in {"createOffer", "setLocal", "emit"}
    /\ Len(pcs) = 1

\* C4: when run has returned, no peer connection is open and the transport
\* is not connected, also when closing the peer connection failed.
C4_TeardownCompletes ==
    runPc = "returned" => /\ pc = None \/ pcs[pc].closed
                          /\ ~sio_connected

\* C5 as stated: a failed initial connection reaches the caller of run as an
\* error.
C5_ErrorReachesCaller ==
    (exitCause = "connect_failed" /\ runPc = "returned") => runOutcome = "raised"

\* C5, amended: a failed initial connection leaves connect_signaling and ends
\* run, which logs it, never enters the idle loop, processes no negotiation
\* event, runs cleanup and returns normally to its caller.
C5_ConnectFailureEndsRun ==
    "Failed to connect" \in logged =>
        /\ runPc = "returned"
        /\ runOutcome = "returned"
        /\ exitCause = "connect_failed"
        /\ "Error" \in logged
        /\ "running" \notin logged
        /\ tasks = <<>>
        /\ emitted = <<>>
        /\ pcs = <<>>
        /\ ~sio_connected

\* run has ended on a failed initial connection
C5_Witness == "Failed to connect" \in logged /\ runPc = "returned"

\* C6: handle_answer lets no exception out, and a call that fails (payload
\* malformed, no peer connection, no local offer pending, refused by the
\* library) leaves peer connection, data channel, video track and the
\* local/remote descriptions as they were.
C6_AnswerFailureHarmless ==
    [][(nRemote' /= nRemote /\ last'.op = "answer") =>
          /\ "handle_answer" \notin escaped'
          /\ last'.failed => UNCHANGED session]_vars

\* an answer was handled, and failed, on a peer connection with no local offer
C6_Witness ==
    /\ last.op = "answer"
    /\ last.failed
    /\ pc /= None
    /\ pcs[pc].local = NoDesc
    /\ pcs[pc].remote = NoDesc

\* C7: handle_ice_candidate lets no exception out in any order relative to
\* offer and answer, and leaves the run loop, the transport, the running
\* create_offer coroutines, the session handles and the descriptions as they
\* were, so later events are handled as before.
C7_IceNeverFatal ==
    [][(nRemote' /= nRemote /\ last'.op = "ice") =>
          /\ "handle_ice_candidate" \notin escaped'
          /\ UNCHANGED <<runPc, runOutcome, sio_connected, tasks, pc,
                         datachannel, video_track>>
          /\ Len(pcs') = Len(pcs)
          /\ \A p \in 1..Len(pcs) :
                /\ pcs'[p].closed = pcs[p].closed
                /\ pcs'[p].signaling = pcs[p].signaling
                /\ pcs'[p].local = pcs[p].local
                /\ pcs'[p].remote = pcs[p].remote]_vars

\* two candidates were handled and accepted before any remote description
C7_Witness ==
    /\ nRemote = 2
    /\ last.op = "ice"
    /\ pc /= None
    /\ pcs[pc].cands = 2
    /\ pcs[pc].remote = NoDesc

\* the state cleanup works on
CleanupState == [pc |-> pc, pcs |-> pcs, connected |-> sio_connected]

\* C8: cleanup called twice in a row: the second call raises nothing and
\* leaves the state the first call left, with or without a peer connection
\* (the first call being one whose close did not fail in the library).
C8_CleanupIdempotent ==
    LET r1 == Cleanup(CleanupState, TRUE)
        w1 == [pc |-> r1.pc, pcs |-> r1.pcs, connected |-> r1.connected]
    IN /\ ~r1.raised
       /\ \A closeOk \in BOOLEAN :
            /\ ~Cleanup(w1, closeOk).raised
            /\ Cleanup(w1, closeOk) = r1

\* run's cleanup has closed a peer connection and disconnected the transport
C8_Witness ==
    /\ runPc = "returned"
    /\ runOutcome = "returned"
    /\ pc /= None
    /\ pcs[pc].closed
    /\ ~sio_connected
    /\ conn > 0

\* create_offer coroutine i ends with a failure in this step
FailsNow(i) ==
    /\ tasks'[i].at = "done"
    /\ tasks'[i].failed
    /\ i <= Len(tasks) => tasks[i].at /= "done"

C10_RegisterBeforeOffer ==
    /\ \A c \in 1..conn :
         \E k \in 1..Len(emitted) :
            /\ emitted[k].event = "register-car"
            /\ emitted[k].conn = c
            /\ emitted[k].room = room_code
    /\ \A k \in OfferIndexes :
         \E j \in 1..(k - 1) :
            /\ emitted[j].event = "register-car"
            /\ emitted[j].conn = emitted[k].conn

\* an offer went out on the second connection
C10_Witness ==
    /\ conn = 2
    /\ \E k \in OfferIndexes : emitted[k].conn = 2

\* C11: for every message on the data channel: a message that decodes is
\* handed to process_command exactly once, as decoded; a message that does
\* not decode is handed to nobody; no exception leaves on_message, also when
\* process_command raised; peer connection, data channel, video track,
\* descriptions, transport, create_offer coroutines and run are unchanged.
C11_MessageHandledOnce ==
    [][nMsg' = nMsg + 1 =>
          /\ lastMsg'.text.kind \in {"object", "scalar"} =>
                /\ sink'.calls = sink.calls + 1
                /\ sink'.last = JsonLoads(lastMsg'.text)
          /\ lastMsg'.text.kind = "garbage" => sink' = sink
          /\ "on_message" \notin escaped'
          /\ UNCHANGED <<session, dcOpen, sio_connected, emitted, tasks, runPc,
                         runOutcome>>]_vars

\* a message that decoded and whose command made the sink raise
C11_Witness ==
    /\ nMsg = 1
    /\ sink.calls = 1
    /\ sink.raised
    /\ lastMsg.decoded
    /\ lastMsg.failed

\* C12: for every local candidate event: None and the empty candidate string
\* give no emit; any other candidate gives exactly one 'ice-candidate' event
\* with the room code and the serialized candidate, sdpMid and sdpMLineIndex
\* when the transport takes it, and none when the emit fails; no exception
\* leaves the handler either way.
C12_LocalCandidateEmit ==
    [][nLocal' = nLocal + 1 =>
          LET c == lastCand'
              n == Len(emitted)
          IN /\ "send_ice_candidate" \notin escaped'
             /\ (c.null \/ c.candidate = "" \/ ~c.emitOk) => emitted' = emitted
             /\ (~c.null /\ c.candidate /= "" /\ c.emitOk) =>
                   /\ Len(emitted') = n + 1
                   /\ SubSeq(emitted', 1, n) = emitted
                   /\ emitted'[n + 1].event = "ice-candidate"
                   /\ emitted'[n + 1].room = room_code
                   /\ JsonParses(emitted'[n + 1].body)
                   /\ JsonKeys(emitted'[n + 1].body)
                        = {"candidate", "sdpMid", "sdpMLineIndex"}
                   /\ JsonGet(emitted'[n + 1].body, "candidate") = c.candidate
                   /\ JsonGet(emitted'[n + 1].body, "sdpMid") = c.sdpMid
                   /\ JsonGet(emitted'[n + 1].body, "sdpMLineIndex") = c.sdpMLineIndex]_vars

\* one candidate was emitted, then the emit of a second one failed on a
\* transport that had dropped
C12_Witness ==
    /\ nLocal = 2
    /\ ~sio_connected
    /\ lastCand.candidate /= ""
    /\ ~lastCand.emitOk
    /\ Cardinality({k \in 1..Len(emitted) : emitted[k].event = "ice-candidate"}) = 1

\* C13: a candidate is forwarded (a remote one added to a peer connection, a
\* local one emitted as 'ice-candidate') only on a peer connection that has
\* a local description set by create_offer. (A local description is never
\* removed, so this is a state invariant.)
C13_CandidatesAfterLocalDescription ==
    /\ \A p \in 1..Len(pcs) : pcs[p].cands > 0 => pcs[p].local /= NoDesc
    /\ (\E k \in 1..Len(emitted) : emitted[k].event = "ice-candidate")
          => (pc /= None /\ pcs[pc].local /= NoDesc)

\* the state of the Session, read off the client: Idle until a peer
\* connection exists, Negotiating until its data channel is open, Connected
\* until it is closed; a client that never had a peer connection is Closed
\* once run has ended
SessionState ==
    IF pc = None THEN (IF runPc = "returned" THEN "Closed" ELSE "Idle")
    ELSE IF pcs[pc].closed THEN "Closed"
    ELSE IF dcOpen THEN "Connected"
    ELSE "Negotiating"

\* a step that keeps to Idle -> Negotiating -> Connected -> Closed: Idle is
\* left for Negotiating by a 'controller-joined' only, Connected is entered
\* from Negotiating by the data channel opening only, Closed is entered
\* by cleanup (closing the peer connection, or ending run when there is
\* none) or on the loss of the transport only, and handling an
\* 'ice-candidate' changes nothing
SessionStepAllowed ==
    /\ SessionState' /= SessionState =>
          <<SessionState, SessionState'>> \in
              {<<"Idle", "Negotiating">>, <<"Negotiating", "Connected">>,
               <<"Idle", "Closed">>, <<"Negotiating", "Closed">>,
               <<"Connected", "Closed">>}
    /\ (SessionState = "Idle" /\ SessionState' = "Negotiating")
          => Len(tasks') = Len(tasks) + 1
    /\ (SessionState /= "Connected" /\ SessionState' = "Connected")
          => (~dcOpen /\ dcOpen')
    /\ (SessionState /= "Closed" /\ SessionState' = "Closed")
          => (runPc' \in {"cleanup_disconnect", "returned"} \/ sio_lost')
    /\ (nRemote' /= nRemote /\ last'.op = "ice") => SessionState' = SessionState

\* C14: the Session follows Idle -> Negotiating -> Connected -> Closed and
\* nothing else, and the loss of the signaling transport with no
\* reconnection moves it to Closed from whatever state it is in.
C14_SessionStateMachine ==
    [][/\ SessionStepAllowed
       /\ (sio_lost' /\ ~sio_lost) => SessionState' = "Closed"]_vars

\* C15: the counter starts at 0 and grows by 1 per frame returned: the k-th
\* frame (from 0) is rendered with counter k and labelled with it, whatever
\* the number of recv calls waiting for their timestamp and whichever of
\* them ends without a frame.
C15_CounterPerFrame ==
    /\ counter = Len(frames)
    /\ \A k \in 1..Len(frames) :
         /\ frames[k].n = k - 1
         /\ frames[k].image = Render(width, k - 1)

\* three recv calls were waiting together (the one still waiting was called
\* before any frame was rendered) and two of them have returned their frames
C15_Witness ==
    /\ Len(frames) = 2
    /\ Len(pulls) = 1
    /\ pulls[1].seen = 0
    /\ counter = 2

\* a displayed color
Rgb(r, g, b) == [b |-> b, g |-> g, r |-> r]

\* the seven bar colors in the order white, yellow, cyan, green, magenta,
\* red, blue
NamedOrder ==
    <<Rgb(255, 255, 255), Rgb(255, 255, 0), Rgb(0, 255, 255), Rgb(0, 255, 0),
      Rgb(255, 0, 255), Rgb(255, 0, 0), Rgb(0, 0, 255)>>

\* the first bar of the picture begins at column n mod w (on a track wide
\* enough to have bars)
FirstBarAt(image, w, n) ==
    w >= Len(Colors) =>
        /\ image[n % w].color = Rgb(255, 255, 255)
        /\ image[(n + w - 1) % w].color /= Rgb(255, 255, 255)

\* C16 as stated: the bars of frame n begin at column n mod width, and the
\* frames for n and n + width are pixel-identical.
C16_PeriodicFrames ==
    \A k \in 1..Len(frames) :
        /\ FirstBarAt(frames[k].image, width, frames[k].n)
        /\ Render(width, frames[k].n + width) = frames[k].image

\* C16, amended: the bars of frame n begin at column n mod width; the bar
\* pattern of the frames for n and n + width is the same, column by column;
\* the two frames differ in nothing but the digits of the label, so they are
\* pixel-identical on a track too narrow to show the digits, and they differ
\* on a track of the default width.
C16_PeriodicBars ==
    \A k \in 1..Len(frames) :
        LET n == frames[k].n
            later == Render(width, n + width)
        IN /\ FirstBarAt(frames[k].image, width, n)
           /\ Bars(width, n + width) = Bars(width, n)
           /\ \A x \in 0..(width - 1) :
                /\ later[x].color = frames[k].image[x].color
                /\ later[x] /= frames[k].image[x]
                      => x >= LabelX + Len(LabelPrefix) * GlyphAdvance
           /\ width = DefaultWidth => later /= frames[k].image

\* a frame whose counter has passed the width, on a track with bars
C16_Witness ==
    /\ width >= Len(Colors)
    /\ \E k \in 1..Len(frames) : frames[k].n > width

\* C17: on every frame seven bars are drawn in the order white, yellow,
\* cyan, green, magenta, red, blue from the offset on, and with the
\* wraparound they cover every column: no column keeps the zero color.
C17_SevenBarsCoverFrame ==
    \A k \in 1..Len(frames) :
        /\ \A x \in 0..(width - 1) : frames[k].image[x].color /= Rgb(0, 0, 0)
        /\ BarWidth(width) >= 1 =>
              \A i \in 0..(Len(Colors) - 1) :
                 frames[k].image[(frames[k].n + i * BarWidth(width)) % width].color
                    = NamedOrder[i + 1]

\* the keys of a decoded command
KeysOf(command) == {it[1] : it \in command.items}

\* C18: process_command, called with a mapping whose 'w', 'a' or both are
\* absent (the empty mapping included) and whose fields present are numbers,
\* completes normally and logs 0.00 for each absent field.
C18_MissingFieldsDefault ==
    (/\ sink.calls > 0
     /\ sink.last.isDict
     /\ {"w", "a"} \ KeysOf(sink.last) /= {}
     /\ \A it \in sink.last.items : it[2].t = "number")
    => /\ ~sink.raised
       /\ "w" \notin KeysOf(sink.last)
             => sink.line.w = [sign |-> "", int |-> 0, frac |-> <<0, 0>>]
       /\ "a" \notin KeysOf(sink.last)
             => sink.line.a = [sign |-> "", int |-> 0, frac |-> <<0, 0>>]
       /\ \A it \in sink.last.items :
             it[1] = "a" => sink.line.a = [sign |-> "-", int |-> 1, frac |-> <<0, 0>>]

\* process_command was called with the empty mapping and returned
C18_Witness ==
    /\ sink.calls > 0
    /\ sink.last.isDict
    /\ sink.last.items = {}
    /\ ~sink.raised

\* C19: once cleanup has started no peer connection is created and no
\* 'offer' is emitted, and when cleanup has completed the client holds no
\* open peer connection, whatever 'controller-joined' was handled while
\* cleanup was suspended.
C19_NothingNewAfterCleanup ==
    [][/\ runPc \in {"cleanup_close", "cleanup_disconnect"} =>
             /\ Len(pcs') = Len(pcs)
             /\ Cardinality(OfferIndexes') = Cardinality(OfferIndexes)
       /\ (runPc /= "returned" /\ runPc' = "returned" /\ runOutcome' = "returned")
             => (pc' = None \/ pcs'[pc'].closed)]_vars

\* C20: when two or more create_offer invocations have run and none is in
\* progress, each of them having emitted its offer, the last 'offer' emitted
\* carries the current local description of the peer connection.
C20_LastOfferIsCurrent ==
    (/\ Len(tasks) >= 2
     /\ \A i \in 1..Len(tasks) : tasks[i].at = "done" /\ ~tasks[i].failed)
    => \A k \in OfferIndexes :
          (\A j \in OfferIndexes : j <= k) =>
              /\ pc /= None
              /\ JsonGet(emitted[k].body, "type") = pcs[pc].local.type
              /\ JsonGet(emitted[k].body, "sdp") = pcs[pc].local.sdp

\* C21: the peer connection handle is set exactly when the data channel
\* handle and the video track handle are both set, in every state, also
\* after a step of initialize_peer_connection has failed.
C21_HandlesSetTogether ==
    (pc /= None) <=> (datachannel /= None /\ video_track /= None)

====
